---- MODULE Spec2Model ----
(***************************************************************************)
(* SimpleEQ editor: ResponseCurveComponent and PathProducer                *)
(* (Source/PluginEditor.cpp).                                              *)
(*                                                                         *)
(* Three kinds of thread act on the component:                             *)
(*   - the audio thread pushes blocks on each channel's block queue;       *)
(*   - any thread writes a parameter and then delivers the listener        *)
(*     callback parameterValueChanged;                                     *)
(*   - the message thread runs the constructor, timerCallback (with the    *)
(*     two PathProducer::process calls and updateChain inside it) and      *)
(*     paint, one callback at a time; pc is its position.                  *)
(*                                                                         *)
(* Data is modelled by where it comes from.  A sample is its index in its  *)
(* channel's stream (1, 2, ...; 0 is the silence the window starts with),  *)
(* an FFT block is tagged with the window it was transformed from, a path  *)
(* with the FFT block it was generated from, a coefficient set with the    *)
(* settings snapshot it was designed from.                                 *)
(***************************************************************************)
EXTENDS Integers, Sequences, FiniteSets, TLC

\* ---------------------------------------------------------------- bounds
WindowLength == 2
FFTCapacity == 2
MaxPushes == 4
MaxChanges == 2

\* The block queue is larger than the FFT-result queue (spec: 100 and ~20).
AudioCapacity == FFTCapacity + 1
\* The path queue receives one path per FFT block consumed.
PathCapacity == FFTCapacity
\* A host block may be longer than the analysis window.
MaxBlockLen == WindowLength + 1

Channels == {"left", "right"}
Slopes == {12, 24, 36, 48}
PeakValues == {0, 1}
StageIds == 1..4

\* -------------------------------------------------------------- helpers
Min(a, b) == IF a < b THEN a ELSE b

FirstK(s, k) == SubSeq(s, 1, Min(k, Len(s)))

LastK(s, k) == SubSeq(s, Len(s) - Min(k, Len(s)) + 1, Len(s))

\* ------------------------------------------------------------ variables
VARIABLES
    \* audio side, per channel
    channelFifo,        \* block queue: audio thread -> message thread
    nextSample,         \* index of the next sample the audio thread produces
    pushes,             \* number of audio callbacks made
    hostBlock,          \* length of the host block being handed over (0: none)
    monoBuffer,         \* the analysis window
    fftDataFifo,        \* FFT-result queue inside FFTDataGenerator
    pathFifo,           \* path queue inside AnalyzerPathGenerator
    smoothing,          \* the path generator's previous input (smoothing state)
    channelFFTPath,     \* the path kept for display
    \* parameter side
    apvts,              \* the parameter store
    changes,            \* number of parameter writes made
    pending,            \* writes whose listener callback has not run yet
    listening,          \* the component is registered as a listener
    parametersChanged,  \* the pending-change flag
    monoChain,          \* the display filter chain
    chainSettings,      \* updateChain's local snapshot
    \* message thread
    pc, cur, ret, timerRunning, outOfRange,
    \* what paint last read
    painted,
    \* history of the current tick (reset when the tick ends)
    drained, fftAtConsume, generated, burst, casFound, updates, settingsReads,
    \* history since construction
    pushLog,            \* the blocks pushed, until the first one is consumed
    consumed,           \* a block has been consumed
    ingested            \* the last WindowLength samples ingested

audioVars == <<channelFifo, nextSample, pushes, hostBlock, pushLog>>
pathVars == <<monoBuffer, fftDataFifo, pathFifo, smoothing, channelFFTPath,
              consumed, ingested, drained, fftAtConsume, generated, outOfRange>>
storeVars == <<apvts, changes, pending>>
chainVars == <<monoChain, chainSettings, updates, settingsReads>>
vars == <<channelFifo, nextSample, pushes, hostBlock, monoBuffer, fftDataFifo, pathFifo,
          smoothing, channelFFTPath, apvts, changes, pending,
          listening, parametersChanged, monoChain, chainSettings, pc, cur, ret,
          timerRunning, outOfRange, painted, drained,
          fftAtConsume, generated, burst, casFound, updates, settingsReads,
          pushLog, consumed, ingested>>

\* A queue that overwrites its oldest unread slot when it is full.
FifoPushOverwrite(q, x, cap) ==
    IF Len(q) < cap THEN Append(q, x) ELSE Append(Tail(q), x)

\* ------------------------------------------------------ queues (Fifo<T>)
\* push: copies the block into the next free slot; returns false and drops
\* nothing already queued when the ring is full.
FifoPush(q, x, cap) == IF Len(q) < cap THEN Append(q, x) ELSE q

\* getNumCompleteBuffersAvailable / getNumAvailableFFTDataBlocks / getNumPathsAvailable
FifoAvailable(q) == Len(q)

\* pull: the oldest block
FifoFront(q) == Head(q)

FifoPop(q) == Tail(q)

\* ------------------------------------- juce::FloatVectorOperations::copy
\* copy(dest, src, num) copies num floats in ascending address order.  The
\* buffer is a sequence; dst and src are 1-based positions in it.
RECURSIVE CopyWithin(_, _, _, _)
CopyWithin(buf, dst, src, num) ==
    IF num <= 0 THEN buf
    ELSE CopyWithin([buf EXCEPT ![dst] = buf[src]], dst + 1, src + 1, num - 1)

RECURSIVE CopyFrom(_, _, _, _, _)
CopyFrom(buf, dst, from, src, num) ==
    IF num <= 0 THEN buf
    ELSE CopyFrom([buf EXCEPT ![dst] = from[src]], dst + 1, from, src + 1, num - 1)

\* The two copies of PathProducer::process for a block that fits the window:
\* shift left by size, then append the block at the tail.
ShiftAppend(window, block) ==
    LET size == Len(block)
        n == Len(window)
        shifted == CopyWithin(window, 1, size + 1, n - size)
    IN CopyFrom(shifted, n - size + 1, block, 1, size)

\* A block longer than the window: getReadPointer(0, size) is past the end of
\* monoBuffer, the count n - size is negative and the write pointer
\* n - size is before its start.
InRange(window, block) == Len(block) <= Len(window)

Garbage == [i \in 1..WindowLength |-> -1]

\* FFTDataGenerator::produceFFTDataForRendering: the block is a function of
\* the window it is given.
FFTOf(window) == [window |-> window]

\* AnalyzerPathGenerator::generatePath: a function of the FFT block and of the
\* previous path (exponential smoothing).
PathOf(fftData, prev) == [fft |-> fftData, prev |-> prev]

NoFFT == [window |-> <<>>]

NoPath == [fft |-> NoFFT, prev |-> NoFFT]

\* --------------------------------------------------- settings and chain
\* ChainSettings: peak stands for the peak band's frequency, gain and Q.
Settings == [peak : PeakValues, loCutSlope : Slopes, hiCutSlope : Slopes]

NoSettings == [peak |-> -1, loCutSlope |-> 0, hiCutSlope |-> 0]

\* getChainSettings(apvts): one snapshot of the store.
GetChainSettings(store) == store

DefaultCoefficients == [kind |-> "default", param |-> 0, from |-> NoSettings]

MakePeakFilter(cs) == [kind |-> "peak", param |-> cs.peak, from |-> cs]

MakeLoCutFilter(cs) == [kind |-> "locut", param |-> cs.loCutSlope, from |-> cs]

MakeHiCutFilter(cs) == [kind |-> "hicut", param |-> cs.hiCutSlope, from |-> cs]

\* updateCoefficients(old, replacements): *old = *replacements
UpdateCoefficients(old, replacements) == replacements

\* updateCutFilter(chain, coefficients, slope): slope/12 stages active, the
\* remainder bypassed.
UpdateCutFilter(cut, coefficients, slope) ==
    [coefficients |-> coefficients,
     bypassed |-> [i \in StageIds |-> i > slope \div 12]]

DefaultCut ==
    [coefficients |-> DefaultCoefficients, bypassed |-> [i \in StageIds |-> FALSE]]

DefaultChain ==
    [peak |-> [coefficients |-> DefaultCoefficients, bypassed |-> FALSE],
     loCut |-> DefaultCut,
     hiCut |-> DefaultCut]

\* The chain updateChain leaves behind for a snapshot cs.
ChainFor(cs) ==
    [peak |-> [coefficients |-> MakePeakFilter(cs), bypassed |-> FALSE],
     loCut |-> UpdateCutFilter(DefaultCut, MakeLoCutFilter(cs), cs.loCutSlope),
     hiCut |-> UpdateCutFilter(DefaultCut, MakeHiCutFilter(cs), cs.hiCutSlope)]

NothingPainted == [peak |-> {}, loCut |-> {}, hiCut |-> {}]

\* ----------------------------------------------------------------- Init
Init ==
    /\ channelFifo = [ch \in Channels |-> <<>>]
    /\ nextSample = [ch \in Channels |-> 1]
    /\ pushes = 0
    /\ hostBlock = 0
    /\ monoBuffer = [ch \in Channels |-> [i \in 1..WindowLength |-> 0]]
    /\ fftDataFifo = [ch \in Channels |-> <<>>]
    /\ pathFifo = [ch \in Channels |-> <<>>]
    /\ smoothing = [ch \in Channels |-> NoFFT]
    /\ channelFFTPath = [ch \in Channels |-> NoPath]
    /\ apvts \in Settings
    /\ changes = 0
    /\ pending = 0
    /\ listening = FALSE
    /\ parametersChanged = FALSE
    /\ monoChain = DefaultChain
    /\ chainSettings = NoSettings
    /\ pc = "ctor"
    /\ cur = "left"
    /\ ret = "ctor_start"
    /\ timerRunning = FALSE
    /\ outOfRange = FALSE
    /\ painted = NothingPainted
    /\ drained = [ch \in Channels |-> <<>>]
    /\ fftAtConsume = [ch \in Channels |-> <<>>]
    /\ generated = [ch \in Channels |-> <<>>]
    /\ burst = 0
    /\ casFound = "none"
    /\ updates = 0
    /\ settingsReads = 0
    /\ pushLog = [ch \in Channels |-> <<>>]
    /\ consumed = [ch \in Channels |-> FALSE]
    /\ ingested = [ch \in Channels |-> <<>>]

\* An out-of-range access may end the process: every thread stops with it.
Running == pc # "crashed"

\* ========================================================== audio thread
\* The audio callback hands the host block to the left channel's queue and
\* then to the right channel's: one call of this action per queue.
Push(ch, len) ==
    /\ Running
    /\ IF ch = "left" THEN pushes < MaxPushes /\ hostBlock = 0
                      ELSE hostBlock = len
    /\ LET block == [i \in 1..len |-> nextSample[ch] + i - 1]
       IN /\ channelFifo' = [channelFifo EXCEPT ![ch] = FifoPush(@, block, AudioCapacity)]
          /\ pushLog' = [pushLog EXCEPT ![ch] = IF consumed[ch] THEN @ ELSE Append(@, block)]
    /\ nextSample' = [nextSample EXCEPT ![ch] = @ + len]
    /\ pushes' = IF ch = "left" THEN pushes + 1 ELSE pushes
    /\ hostBlock' = IF ch = "left" THEN len ELSE 0
    /\ UNCHANGED <<pathVars, storeVars, chainVars, listening, parametersChanged,
                   pc, cur, ret, timerRunning, painted, burst,
                   casFound>>

\* ====================================================== parameter threads
\* A host or UI thread writes one parameter; its listeners are called next.
ParameterWrite(field, value) ==
    /\ Running
    /\ changes < MaxChanges
    /\ apvts' = [apvts EXCEPT ![field] = value]
    /\ changes' = changes + 1
    /\ pending' = pending + 1
    /\ UNCHANGED <<audioVars, pathVars, chainVars, listening, parametersChanged,
                   pc, cur, ret, timerRunning, painted, burst,
                   casFound>>

BetweenTicks == pc = "idle" /\ timerRunning

\* ResponseCurveComponent::parameterValueChanged, called for a write made
\* while the component is registered.
ParameterValueChanged ==
    /\ Running
    /\ pending > 0
    /\ pending' = pending - 1
    /\ parametersChanged' = IF listening THEN TRUE ELSE parametersChanged
    /\ burst' = IF listening /\ BetweenTicks THEN burst + 1 ELSE burst
    /\ UNCHANGED <<audioVars, pathVars, chainVars, apvts, changes, listening,
                   pc, cur, ret, timerRunning, painted, casFound>>

\* ========================================================= message thread
\* ResponseCurveComponent::ResponseCurveComponent: addListener on every
\* parameter, then updateChain(), then startTimerHz(60).
CtorAddListeners ==
    /\ pc = "ctor"
    /\ listening' = TRUE
    /\ pc' = "upd_read"
    /\ ret' = "ctor_start"
    /\ UNCHANGED <<audioVars, pathVars, storeVars, chainVars, parametersChanged,
                   cur, timerRunning, painted, burst, casFound>>

CtorStartTimer ==
    /\ pc = "ctor_start"
    /\ timerRunning' = TRUE
    /\ pc' = "idle"
    /\ UNCHANGED <<audioVars, pathVars, storeVars, chainVars, listening,
                   parametersChanged, cur, ret, painted, burst,
                   casFound>>

\* timerCallback, up to the first process call.
TimerStart ==
    /\ pc = "idle"
    /\ timerRunning
    /\ pc' = "proc_audio"
    /\ cur' = "left"
    /\ UNCHANGED <<audioVars, pathVars, storeVars, chainVars, listening,
                   parametersChanged, ret, timerRunning, painted,
                   burst, casFound>>

\* PathProducer::process, first loop: one iteration, or the loop's exit.
ProcAudio ==
    /\ pc = "proc_audio"
    /\ IF FifoAvailable(channelFifo[cur]) > 0
       THEN LET block == FifoFront(channelFifo[cur])
                window == monoBuffer[cur]
            IN /\ channelFifo' = [channelFifo EXCEPT ![cur] = FifoPop(@)]
               /\ consumed' = [consumed EXCEPT ![cur] = TRUE]
               /\ ingested' = [ingested EXCEPT ![cur] = LastK(@ \o block, WindowLength)]
               /\ pushLog' = [pushLog EXCEPT ![cur] = <<>>]
               /\ IF InRange(window, block)
                  THEN LET w == ShiftAppend(window, block)
                       IN /\ monoBuffer' = [monoBuffer EXCEPT ![cur] = w]
                          /\ fftDataFifo' = [fftDataFifo EXCEPT ![cur] =
                                                FifoPush(@, FFTOf(w), FFTCapacity)]
                          /\ drained' = [drained EXCEPT ![cur] =
                                            Append(@, [block |-> block, window |-> w])]
                          /\ pc' = pc
                          /\ UNCHANGED outOfRange
                  ELSE /\ outOfRange' = TRUE
                       /\ \E outcome \in {"crash", "corrupt"} :
                            IF outcome = "crash"
                            THEN /\ pc' = "crashed"
                                 /\ drained' = [drained EXCEPT ![cur] =
                                       Append(@, [block |-> block, window |-> window])]
                                 /\ UNCHANGED <<monoBuffer, fftDataFifo>>
                            ELSE /\ pc' = pc
                                 /\ monoBuffer' = [monoBuffer EXCEPT ![cur] = Garbage]
                                 /\ fftDataFifo' = [fftDataFifo EXCEPT ![cur] =
                                       FifoPush(@, FFTOf(Garbage), FFTCapacity)]
                                 /\ drained' = [drained EXCEPT ![cur] =
                                       Append(@, [block |-> block, window |-> Garbage])]
               /\ UNCHANGED fftAtConsume
       ELSE /\ pc' = "proc_fft"
            /\ fftAtConsume' = [fftAtConsume EXCEPT ![cur] = fftDataFifo[cur]]
            /\ UNCHANGED <<channelFifo, consumed, ingested, pushLog, monoBuffer,
                           fftDataFifo, drained, outOfRange>>
    /\ UNCHANGED <<nextSample, pushes, hostBlock, pathFifo, smoothing, channelFFTPath,
                   generated, storeVars, chainVars, listening, parametersChanged,
                   cur, ret, timerRunning, painted, burst, casFound>>

\* The second loop draining to the newest FFT block: only the last block
\* pulled is handed to generatePath.
ProcFFTNewestOnly ==
    /\ pc = "proc_fft"
    /\ IF FifoAvailable(fftDataFifo[cur]) > 0
       THEN LET fftData == FifoFront(fftDataFifo[cur])
                path == PathOf(fftData, smoothing[cur])
                newest == FifoAvailable(fftDataFifo[cur]) = 1
            IN /\ fftDataFifo' = [fftDataFifo EXCEPT ![cur] = FifoPop(@)]
               /\ pathFifo' = [pathFifo EXCEPT ![cur] =
                                  IF newest THEN FifoPush(@, path, PathCapacity) ELSE @]
               /\ smoothing' = [smoothing EXCEPT ![cur] = IF newest THEN fftData ELSE @]
               /\ generated' = [generated EXCEPT ![cur] =
                                   IF newest THEN Append(@, fftData) ELSE @]
               /\ pc' = pc
       ELSE /\ pc' = "proc_path"
            /\ UNCHANGED <<fftDataFifo, pathFifo, smoothing, generated>>
    /\ UNCHANGED <<audioVars, monoBuffer, channelFFTPath, consumed, ingested, drained,
                   fftAtConsume, outOfRange, storeVars, chainVars, listening,
                   parametersChanged, cur, ret, timerRunning,
                   painted, burst, casFound>>

\* PathProducer::process, second loop: every FFT block available is pulled
\* and handed to generatePath.
ProcFFT ==
    /\ pc = "proc_fft"
    /\ IF FifoAvailable(fftDataFifo[cur]) > 0
       THEN LET fftData == FifoFront(fftDataFifo[cur])
                path == PathOf(fftData, smoothing[cur])
            IN /\ fftDataFifo' = [fftDataFifo EXCEPT ![cur] = FifoPop(@)]
               /\ pathFifo' = [pathFifo EXCEPT ![cur] = FifoPush(@, path, PathCapacity)]
               /\ smoothing' = [smoothing EXCEPT ![cur] = fftData]
               /\ generated' = [generated EXCEPT ![cur] = Append(@, fftData)]
               /\ pc' = pc
       ELSE /\ pc' = "proc_path"
            /\ UNCHANGED <<fftDataFifo, pathFifo, smoothing, generated>>
    /\ UNCHANGED <<audioVars, monoBuffer, channelFFTPath, consumed, ingested, drained,
                   fftAtConsume, outOfRange, storeVars, chainVars, listening,
                   parametersChanged, cur, ret, timerRunning, painted, burst, casFound>>

\* The third loop as an if: one path is pulled, the others are left queued.
ProcPathOnce ==
    /\ pc = "proc_path"
    /\ IF FifoAvailable(pathFifo[cur]) > 0
       THEN /\ channelFFTPath' = [channelFFTPath EXCEPT ![cur] = FifoFront(pathFifo[cur])]
            /\ pathFifo' = [pathFifo EXCEPT ![cur] = FifoPop(@)]
       ELSE UNCHANGED <<channelFFTPath, pathFifo>>
    /\ pc' = IF cur = "left" THEN "proc_audio" ELSE "cas"
    /\ cur' = "right"
    /\ UNCHANGED <<audioVars, monoBuffer, fftDataFifo, smoothing, consumed, ingested,
                   drained, fftAtConsume, generated, outOfRange, storeVars,
                   chainVars, listening, parametersChanged, ret, timerRunning,
                   painted, burst, casFound>>

\* PathProducer::process, third loop: pull every path, keep the last.  When
\* the left producer returns timerCallback calls the right one.
ProcPath ==
    /\ pc = "proc_path"
    /\ IF FifoAvailable(pathFifo[cur]) > 0
       THEN /\ channelFFTPath' = [channelFFTPath EXCEPT ![cur] = FifoFront(pathFifo[cur])]
            /\ pathFifo' = [pathFifo EXCEPT ![cur] = FifoPop(@)]
            /\ UNCHANGED <<pc, cur>>
       ELSE /\ pc' = IF cur = "left" THEN "proc_audio" ELSE "cas"
            /\ cur' = "right"
            /\ UNCHANGED <<channelFFTPath, pathFifo>>
    /\ UNCHANGED <<audioVars, monoBuffer, fftDataFifo, smoothing, consumed, ingested,
                   drained, fftAtConsume, generated, outOfRange, storeVars,
                   chainVars, listening, parametersChanged, ret, timerRunning,
                   painted, burst, casFound>>

\* A tick with the arguments of compareAndSetBool exchanged: the flag is set
\* when it was false, and updateChain is called then.
CompareAndSetSwapped ==
    /\ pc = "cas"
    /\ IF ~parametersChanged
       THEN /\ parametersChanged' = TRUE
            /\ casFound' = "set"
            /\ updates' = updates + 1
            /\ pc' = "upd_read"
            /\ ret' = "repaint"
       ELSE /\ casFound' = "clear"
            /\ pc' = "repaint"
            /\ UNCHANGED <<parametersChanged, updates, ret>>
    /\ UNCHANGED <<audioVars, pathVars, storeVars, monoChain, chainSettings,
                   settingsReads, listening, cur, timerRunning, painted, burst>>

\* A tick that calls updateChain whatever the flag holds.
CompareAndSetAlways ==
    /\ pc = "cas"
    /\ parametersChanged' = FALSE
    /\ casFound' = IF parametersChanged THEN "set" ELSE "clear"
    /\ updates' = updates + 1
    /\ pc' = "upd_read"
    /\ ret' = "repaint"
    /\ UNCHANGED <<audioVars, pathVars, storeVars, monoChain, chainSettings,
                   settingsReads, listening, cur, timerRunning, painted, burst>>

\* timerCallback: parametersChanged.compareAndSetBool(false, true), and the
\* call of updateChain when it returns true.
CompareAndSet ==
    /\ pc = "cas"
    /\ IF parametersChanged
       THEN /\ parametersChanged' = FALSE
            /\ casFound' = "set"
            /\ updates' = updates + 1
            /\ pc' = "upd_read"
            /\ ret' = "repaint"
       ELSE /\ casFound' = "clear"
            /\ pc' = "repaint"
            /\ UNCHANGED <<parametersChanged, updates, ret>>
    /\ UNCHANGED <<audioVars, pathVars, storeVars, monoChain, chainSettings,
                   settingsReads, listening, cur, timerRunning, painted, burst>>

\* updateChain: auto chainSettings = getChainSettings(audioProcessor.apvts)
UpdRead ==
    /\ pc = "upd_read"
    /\ chainSettings' = GetChainSettings(apvts)
    /\ settingsReads' = IF ret = "repaint" THEN settingsReads + 1 ELSE settingsReads
    /\ pc' = "upd_peak"
    /\ UNCHANGED <<audioVars, pathVars, storeVars, monoChain, updates, listening,
                   parametersChanged, cur, ret, timerRunning, painted, burst, casFound>>

\* updateChain: the peak stage
UpdPeak ==
    /\ pc = "upd_peak"
    /\ monoChain' = [monoChain EXCEPT !.peak.coefficients =
                        UpdateCoefficients(@, MakePeakFilter(chainSettings))]
    /\ pc' = "upd_locut"
    /\ UNCHANGED <<audioVars, pathVars, storeVars, chainSettings, updates,
                   settingsReads, listening, parametersChanged, cur, ret,
                   timerRunning, painted, burst, casFound>>

\* updateChain handing the high-cut slope to the low-cut filter.
UpdLoCutWrongSlope ==
    /\ pc = "upd_locut"
    /\ monoChain' = [monoChain EXCEPT !.loCut =
                        UpdateCutFilter(@, MakeLoCutFilter(chainSettings),
                                        chainSettings.hiCutSlope)]
    /\ pc' = "upd_hicut"
    /\ UNCHANGED <<audioVars, pathVars, storeVars, chainSettings, updates,
                   settingsReads, listening, parametersChanged, cur, ret,
                   timerRunning, painted, burst, casFound>>

\* updateChain: the low-cut stages
UpdLoCut ==
    /\ pc = "upd_locut"
    /\ monoChain' = [monoChain EXCEPT !.loCut =
                        UpdateCutFilter(@, MakeLoCutFilter(chainSettings),
                                        chainSettings.loCutSlope)]
    /\ pc' = "upd_hicut"
    /\ UNCHANGED <<audioVars, pathVars, storeVars, chainSettings, updates,
                   settingsReads, listening, parametersChanged, cur, ret,
                   timerRunning, painted, burst, casFound>>

\* updateChain clearing the flag when it is done, not before it starts.
UpdHiCutClearsFlag ==
    /\ pc = "upd_hicut"
    /\ monoChain' = [monoChain EXCEPT !.hiCut =
                        UpdateCutFilter(@, MakeHiCutFilter(chainSettings),
                                        chainSettings.hiCutSlope)]
    /\ chainSettings' = NoSettings
    /\ parametersChanged' = FALSE
    /\ pc' = ret
    /\ UNCHANGED <<audioVars, pathVars, storeVars, updates, settingsReads,
                   listening, cur, ret, timerRunning, painted, burst, casFound>>

\* updateChain: the high-cut stages, and the return to the caller
UpdHiCut ==
    /\ pc = "upd_hicut"
    /\ monoChain' = [monoChain EXCEPT !.hiCut =
                        UpdateCutFilter(@, MakeHiCutFilter(chainSettings),
                                        chainSettings.hiCutSlope)]
    /\ chainSettings' = NoSettings
    /\ pc' = ret
    /\ UNCHANGED <<audioVars, pathVars, storeVars, updates, settingsReads,
                   listening, parametersChanged, cur, ret, timerRunning,
                   painted, burst, casFound>>

\* timerCallback: repaint(), and the return to the message loop.
Repaint ==
    /\ pc = "repaint"
    /\ pc' = "idle"
    /\ drained' = [ch \in Channels |-> <<>>]
    /\ fftAtConsume' = [ch \in Channels |-> <<>>]
    /\ generated' = [ch \in Channels |-> <<>>]
    /\ burst' = 0
    /\ casFound' = "none"
    /\ updates' = 0
    /\ settingsReads' = 0
    /\ UNCHANGED <<audioVars, monoBuffer, fftDataFifo, pathFifo, smoothing,
                   channelFFTPath, consumed, ingested, outOfRange, storeVars,
                   monoChain, chainSettings, listening, parametersChanged, cur,
                   ret, timerRunning, painted>>

\* The stages of a cut filter whose magnitude paint multiplies in.
ActiveStages(cut) == {i \in StageIds : ~cut.bypassed[i]}

\* ResponseCurveComponent::paint: the magnitude product over the stages
\* that are not bypassed, as the set of coefficient sets it reads.
PaintRead(chain) ==
    [peak |-> IF chain.peak.bypassed THEN {} ELSE {chain.peak.coefficients},
     loCut |-> {<<i, chain.loCut.coefficients>> : i \in ActiveStages(chain.loCut)},
     hiCut |-> {<<i, chain.hiCut.coefficients>> : i \in ActiveStages(chain.hiCut)}]

\* paint called from a thread other than the message thread.
PaintFromAnyThread ==
    /\ Running
    /\ painted' = PaintRead(monoChain)
    /\ UNCHANGED <<audioVars, pathVars, storeVars, chainVars, listening,
                   parametersChanged, pc, cur, ret, timerRunning, burst, casFound>>

\* paint is a callback of the message loop: it runs between two others, when
\* the loop decides to (repaint() only asks for it).
Paint ==
    /\ pc = "idle"
    /\ painted' = PaintRead(monoChain)
    /\ UNCHANGED <<audioVars, pathVars, storeVars, chainVars, listening,
                   parametersChanged, pc, cur, ret, timerRunning, burst, casFound>>

\* The audio thread.
AudioThread == \E ch \in Channels, len \in 1..MaxBlockLen : Push(ch, len)

\* The threads that change parameters.
ParameterThreads ==
    \/ \E v \in PeakValues : ParameterWrite("peak", v)
    \/ \E f \in {"loCutSlope", "hiCutSlope"}, v \in Slopes : ParameterWrite(f, v)
    \/ ParameterValueChanged

\* The message thread runs one callback at a time: the constructor,
\* timerCallback (process and updateChain are called inside it) and paint.
Constructor ==
    \/ CtorAddListeners
    \/ CtorStartTimer

TimerCallback ==
    \/ TimerStart
    \/ ProcAudio
    \/ ProcFFT
    \/ ProcPath
    \/ CompareAndSet
    \/ Repaint

\* updateChain is called by the constructor and by timerCallback.
UpdateChain ==
    \/ UpdRead
    \/ UpdPeak
    \/ UpdLoCut
    \/ UpdHiCut

MessageThread == Constructor \/ TimerCallback \/ UpdateChain \/ Paint

Next == AudioThread \/ ParameterThreads \/ MessageThread

Spec == Init /\ [][Next]_vars

\* The analyser pipeline alone: no parameter is written, and paint, which
\* writes nothing the pipeline reads, is left out.
NextAudio == AudioThread \/ Constructor \/ TimerCallback \/ UpdateChain

InitialSettings == [peak |-> 0, loCutSlope |-> 12, hiCutSlope |-> 12]

InitAudio == Init /\ apvts = InitialSettings

SpecAudio == InitAudio /\ [][NextAudio]_vars

\* The filter chain alone: the audio thread is stopped.
NextChain == ParameterThreads \/ MessageThread

SpecChain == Init /\ [][NextChain]_vars

\* =================================================== the filter chain
\* C1: when one or more parameterValueChanged calls arrived between the
\* previous tick and this one, the tick has called updateChain exactly once
\* (and read the settings once) when it reaches its end, whatever their number.
C1_OneRecomputePerTick ==
    /\ updates <= 1
    /\ (pc = "repaint" /\ burst >= 1) => (updates = 1 /\ settingsReads = 1)

C1_Witness == pc = "repaint" /\ burst = MaxChanges /\ burst >= 2 /\ updates = 1

\* C5: a tick whose compareAndSetBool finds the flag false goes straight to
\* repaint: no step of it calls updateChain, reads the settings, changes a
\* coefficient set or a bypass flag of the chain, or changes the flag.
C5_CleanTickIsNoOp ==
    /\ [](casFound = "clear" => (updates = 0 /\ settingsReads = 0 /\ pc = "repaint"))
    /\ [][(pc = "cas" /\ ~parametersChanged /\ pc' # pc)
            => (/\ pc' = "repaint"
                /\ monoChain' = monoChain
                /\ chainSettings' = chainSettings
                /\ parametersChanged' = FALSE
                /\ updates' = 0
                /\ settingsReads' = 0)]_vars
    /\ [][(pc = "repaint" /\ casFound = "clear" /\ pc' # pc)
            => (/\ pc' = "idle"
                /\ monoChain' = monoChain
                /\ parametersChanged' = parametersChanged)]_vars

C5_Witness ==
    /\ pc = "repaint"
    /\ casFound = "clear"
    /\ monoChain.peak.coefficients.from # NoSettings
    /\ changes > 0

\* The stage numbers of the coefficient sets paint read from a cut filter.
PaintedStages(read) == {e[1] : e \in read}

\* C6: once a cut filter has been recomputed, the stages of it that are not
\* bypassed are slope/12 in number, for the slope of the snapshot it was
\* recomputed from (its first slope/12 stages), and paint multiplies in the
\* magnitudes of exactly those stages.
C6_ActiveStagesFollowSlope ==
    /\ LET lo == monoChain.loCut
           hi == monoChain.hiCut
       IN /\ lo.coefficients.from # NoSettings =>
                /\ Cardinality(ActiveStages(lo)) = lo.coefficients.from.loCutSlope \div 12
                /\ ActiveStages(lo) = 1..(lo.coefficients.from.loCutSlope \div 12)
          /\ hi.coefficients.from # NoSettings =>
                /\ Cardinality(ActiveStages(hi)) = hi.coefficients.from.hiCutSlope \div 12
                /\ ActiveStages(hi) = 1..(hi.coefficients.from.hiCutSlope \div 12)
    /\ \A e \in painted.loCut :
          e[2].from # NoSettings =>
              PaintedStages(painted.loCut) = 1..(e[2].from.loCutSlope \div 12)
    /\ \A e \in painted.hiCut :
          e[2].from # NoSettings =>
              PaintedStages(painted.hiCut) = 1..(e[2].from.hiCutSlope \div 12)

C6_Witness ==
    /\ changes = MaxChanges
    /\ PaintedStages(painted.loCut) = {1}
    /\ PaintedStages(painted.hiCut) = StageIds
    /\ \E e \in painted.loCut : e[2].from = apvts

\* The snapshots the stages of a chain were computed from.
Snapshots(chain) ==
    {chain.peak.coefficients.from, chain.loCut.coefficients.from,
     chain.hiCut.coefficients.from}

\* The snapshots of the coefficient sets paint read.
PaintedSnapshots ==
    {c.from : c \in painted.peak}
        \cup {e[2].from : e \in painted.loCut}
        \cup {e[2].from : e \in painted.hiCut}

C9_NoLostNotification ==
    (listening /\ pending = 0 /\ ~parametersChanged) =>
        CASE pc = "upd_read" -> TRUE
          [] pc \in {"upd_peak", "upd_locut", "upd_hicut"} -> chainSettings = apvts
          [] OTHER -> monoChain = ChainFor(apvts)

C9_Witness ==
    /\ pc = "repaint"
    /\ casFound = "set"
    /\ pending = 0
    /\ ~parametersChanged
    /\ changes = MaxChanges
    /\ burst = 0
    /\ monoChain = ChainFor(apvts)

\* ================================================ the analyser pipeline
\* process has returned for channel ch in the current tick.
ProcessReturned(ch) ==
    \/ pc \in {"cas", "repaint"}
    \/ pc \in {"upd_read", "upd_peak", "upd_locut", "upd_hicut"} /\ ret = "repaint"
    \/ ch = "left" /\ cur = "right" /\ pc \in {"proc_audio", "proc_fft", "proc_path"}

\* The block ingested last in the current tick, when there is one.
LastDrained(ch) == drained[ch][Len(drained[ch])]

\* C2: once the samples ingested number at least the window length, the
\* window holds exactly the last WindowLength samples ingested, in order,
\* whatever the lengths of the blocks they came in.
C2_WindowIsLastSamples ==
    \A ch \in Channels :
        Len(ingested[ch]) = WindowLength => monoBuffer[ch] = ingested[ch]

\* The same for blocks that fit the window: the shift and the append of
\* process keep the last WindowLength samples.
WindowTracksFittingBlocks ==
    \A ch \in Channels :
        (~outOfRange /\ Len(ingested[ch]) = WindowLength)
            => monoBuffer[ch] = ingested[ch]

C4_OversizeBlockKept ==
    \A ch \in Channels :
        (drained[ch] # <<>> /\ Len(LastDrained(ch).block) > WindowLength)
            => /\ ~outOfRange
               /\ Running
               /\ Len(monoBuffer[ch]) = WindowLength
               /\ monoBuffer[ch] = LastK(LastDrained(ch).block, WindowLength)

\* C8 as stated: when more than one FFT block is queued as the tick starts
\* to consume them, generatePath is given the newest one only.
C8_OnlyNewestGenerated ==
    \A ch \in Channels :
        Len(fftAtConsume[ch]) > 1 =>
            \A i \in 1..Len(generated[ch]) :
                generated[ch][i] = fftAtConsume[ch][Len(fftAtConsume[ch])]

\* C8 as amended: when process returns, generatePath has been given every
\* FFT block that was queued, oldest first, each one updating the smoothing
\* state; the path kept for display is the one generated from the newest
\* block, smoothed against the block before it.
C8_AllGeneratedNewestKept ==
    \A ch \in Channels :
        ProcessReturned(ch) =>
            LET q == fftAtConsume[ch]
                n == Len(q)
            IN /\ generated[ch] = q
               /\ n >= 1 => /\ channelFFTPath[ch].fft = q[n]
                            /\ smoothing[ch] = q[n]
               /\ n >= 2 => channelFFTPath[ch].prev = q[n - 1]

C8_Witness ==
    /\ ProcessReturned("left")
    /\ Len(fftAtConsume["left"]) >= 2
    /\ Len(generated["left"]) >= 2
    /\ generated["left"][1] # generated["left"][2]

====
